---------------------------- MODULE Spec2Model ----------------------------
(***************************************************************************)
(* DynamicGraphTemporalSignalBatch                                         *)
(* (torch_geometric_temporal/signal/dynamic_graph_temporal_signal_batch.py)*)
(*                                                                         *)
(* The aggregate holds five parallel lists (edge_indices, edge_weights,    *)
(* features, targets, batches) plus the lists passed as keyword arguments, *)
(* checks their lengths at construction, converts the elements at one      *)
(* index into a snapshot on demand (__get_item__) and walks the indices    *)
(* with a cursor self.t that lives in the aggregate (__iter__, __next__).  *)
(*                                                                         *)
(* A numpy array is a record [kind, data]: kind is its dtype.kind ("i",    *)
(* "f", "b") and data stands for its contents.  None is the record with    *)
(* kind "None".  A tensor is a record [kind, data] with kind "long" or     *)
(* "float".                                                                *)
(***************************************************************************)
EXTENDS Integers, Sequences, FiniteSets

VARIABLES
    args,      \* the arguments of the constructor call
    status,    \* "pending", "constructed", or the exception __init__ raised
    self,      \* the aggregate the caller holds (Blank until constructed)
    got,       \* the last direct __get_item__ call and its outcome
    trace,     \* per client: the outcomes of its __next__ calls since its __iter__
    prev,      \* per client: <<the snapshots of its last traversal that ran to
               \* exhaustion>>, or <<>> when it has completed none
    last,      \* the last call made on the aggregate: [op, by]
    pc         \* control point of the nested-loops program

vars == <<args, status, self, got, trace, prev, last, pc>>

---------------------------------------------------------------------------
(* Bounds *)

\* longest list passed to the constructor
MaxLen == 2

\* at most this many indices of a constructor argument hold a row other than
\* the default one (every array present, integer targets)
MaxOdd == 1

\* a client makes at most this many __next__ calls per __iter__
MaxTrace == MaxLen + 2

Clients == {1, 2}

Keys == <<"k1", "k2">>

---------------------------------------------------------------------------
(* Values *)

None == [kind |-> "None", data |-> 0]

Arr(k, d) == [kind |-> k, data |-> d]

\* torch.LongTensor(a), torch.FloatTensor(a): a tensor of that type with a's contents
LongTensor(a) == [kind |-> "long", data |-> a.data]

FloatTensor(a) == [kind |-> "float", data |-> a.data]

Range(s) == {s[i] : i \in 1..Len(s)}

\* a variant of PyIndexOk that rejects every negative index
PyIndexOkNoNegative(seq, i) == 0 <= i /\ i < Len(seq)

\* Python's list[i]: a negative i counts from the end; outside -len..len-1 IndexError
PyIndexOk(seq, i) ==
    \/ 0 <= i /\ i < Len(seq)
    \/ i < 0 /\ 0 - i <= Len(seq)

PyIndex(seq, i) == IF i >= 0 THEN seq[i + 1] ELSE seq[Len(seq) + i + 1]

\* the outcome of an accessor: err = "" when it returned val
Ret(v) == [err |-> "", val |-> v]

Raise(e) == [err |-> e, val |-> None]

---------------------------------------------------------------------------
(* The constructor *)

Blank ==
    [edge_indices |-> <<>>, edge_weights |-> <<>>, features |-> <<>>,
     targets |-> <<>>, batches |-> <<>>, additional_feature_keys |-> <<>>,
     attrs |-> <<>>, snapshot_count |-> 0, has_t |-> FALSE, t |-> 0]

\* __init__, lines 42-50: the fields, and one attribute per keyword argument
SetFields(a) ==
    [Blank EXCEPT !.edge_indices = a.edge_indices,
                  !.edge_weights = a.edge_weights,
                  !.features = a.features,
                  !.targets = a.targets,
                  !.batches = a.batches,
                  !.additional_feature_keys = a.keys,
                  !.attrs = a.kwargs]

\* a variant of _check_temporal_consistency without the assert on batches
check_without_batches(o) ==
    /\ Len(o.features) = Len(o.targets)
    /\ Len(o.edge_indices) = Len(o.edge_weights)
    /\ Len(o.features) = Len(o.edge_weights)
    /\ \A k \in Range(o.additional_feature_keys) :
           Len(o.targets) = Len(o.attrs[k])

_check_temporal_consistency(o) ==
    /\ Len(o.features) = Len(o.targets)
    /\ Len(o.edge_indices) = Len(o.edge_weights)
    /\ Len(o.features) = Len(o.edge_weights)
    /\ Len(o.features) = Len(o.batches)
    /\ \A k \in Range(o.additional_feature_keys) :
           Len(o.targets) = Len(o.attrs[k])

_set_snapshot_count(o) == [o EXCEPT !.snapshot_count = Len(o.features)]

\* __init__: [err, obj]; a failed assert leaves the caller without an object
__init__(a) ==
    LET o == SetFields(a)
    IN  IF _check_temporal_consistency(o)
        THEN [err |-> "", obj |-> _set_snapshot_count(o)]
        ELSE [err |-> "AssertionError", obj |-> Blank]

---------------------------------------------------------------------------
(* The accessors *)

_get_edge_index(o, i) ==
    IF ~PyIndexOk(o.edge_indices, i) THEN Raise("IndexError")
    ELSE IF PyIndex(o.edge_indices, i) = None
         THEN Ret(PyIndex(o.edge_indices, i))
         ELSE Ret(LongTensor(PyIndex(o.edge_indices, i)))

_get_batch_index(o, i) ==
    IF ~PyIndexOk(o.batches, i) THEN Raise("IndexError")
    ELSE IF PyIndex(o.batches, i) = None
         THEN Ret(PyIndex(o.batches, i))
         ELSE Ret(LongTensor(PyIndex(o.batches, i)))

_get_edge_weight(o, i) ==
    IF ~PyIndexOk(o.edge_weights, i) THEN Raise("IndexError")
    ELSE IF PyIndex(o.edge_weights, i) = None
         THEN Ret(PyIndex(o.edge_weights, i))
         ELSE Ret(FloatTensor(PyIndex(o.edge_weights, i)))

_get_feature(o, i) ==
    IF ~PyIndexOk(o.features, i) THEN Raise("IndexError")
    ELSE IF PyIndex(o.features, i) = None
         THEN Ret(PyIndex(o.features, i))
         ELSE Ret(FloatTensor(PyIndex(o.features, i)))

\* no branch for a dtype.kind other than "i" and "f": the function falls off its
\* end and returns None
_get_target(o, i) ==
    IF ~PyIndexOk(o.targets, i) THEN Raise("IndexError")
    ELSE IF PyIndex(o.targets, i) = None
         THEN Ret(PyIndex(o.targets, i))
         ELSE IF PyIndex(o.targets, i).kind = "i"
              THEN Ret(LongTensor(PyIndex(o.targets, i)))
              ELSE IF PyIndex(o.targets, i).kind = "f"
                   THEN Ret(FloatTensor(PyIndex(o.targets, i)))
                   ELSE Ret(None)

\* feature.dtype on None raises AttributeError; otherwise as _get_target
_get_additional_feature(o, i, key) ==
    IF ~PyIndexOk(o.attrs[key], i) THEN Raise("IndexError")
    ELSE LET feature == PyIndex(o.attrs[key], i)
         IN  IF feature = None THEN Raise("AttributeError")
             ELSE IF feature.kind = "i" THEN Ret(LongTensor(feature))
                  ELSE IF feature.kind = "f" THEN Ret(FloatTensor(feature))
                       ELSE Ret(None)

\* the dict comprehension: the first key (in order) whose accessor raises ends it
_get_additional_features(o, i) ==
    LET ks == o.additional_feature_keys
        bad == {n \in 1..Len(ks) : _get_additional_feature(o, i, ks[n]).err # ""}
    IN  IF bad # {}
        THEN LET n == CHOOSE m \in bad : \A q \in bad : m <= q
             IN  [err |-> _get_additional_feature(o, i, ks[n]).err, val |-> <<>>]
        ELSE [err |-> "",
              val |-> [k \in Range(ks) |-> _get_additional_feature(o, i, k).val]]

\* __get_item__: [err, val], val the sequence holding the snapshot, if any
__get_item__(o, i) ==
    LET x == _get_feature(o, i)
        edge_index == _get_edge_index(o, i)
        edge_weight == _get_edge_weight(o, i)
        batch == _get_batch_index(o, i)
        y == _get_target(o, i)
        additional_features == _get_additional_features(o, i)
        calls == <<x.err, edge_index.err, edge_weight.err, batch.err, y.err,
                   additional_features.err>>
        failed == {n \in 1..Len(calls) : calls[n] # ""}
    IN  IF failed # {}
        THEN [err |-> calls[CHOOSE m \in failed : \A q \in failed : m <= q],
              val |-> <<>>]
        ELSE [err |-> "",
              val |-> <<[x |-> x.val, edge_index |-> edge_index.val,
                         edge_attr |-> edge_weight.val, y |-> y.val,
                         batch |-> batch.val,
                         additional |-> additional_features.val]>>]

---------------------------------------------------------------------------
(* The iteration protocol *)

\* a variant of __iter__ that keeps a cursor that is already set
iter_keeps_cursor(o) == IF o.has_t THEN o ELSE [o EXCEPT !.has_t = TRUE, !.t = 0]

\* __iter__: self.t = 0
__iter__(o) == [o EXCEPT !.has_t = TRUE, !.t = 0]

\* a variant of __next__ that does not advance self.t
next_without_advance(o) ==
    IF ~o.has_t
    THEN [obj |-> o, err |-> "AttributeError", idx |-> 0, val |-> <<>>]
    ELSE IF o.t < Len(o.features)
         THEN [obj |-> o, err |-> __get_item__(o, o.t).err, idx |-> o.t,
               val |-> __get_item__(o, o.t).val]
         ELSE [obj |-> [o EXCEPT !.t = 0], err |-> "StopIteration",
               idx |-> o.t, val |-> <<>>]

\* a variant of __next__ that leaves self.t where it is at exhaustion
next_without_reset(o) ==
    IF ~o.has_t
    THEN [obj |-> o, err |-> "AttributeError", idx |-> 0, val |-> <<>>]
    ELSE IF o.t < Len(o.features)
         THEN LET snapshot == __get_item__(o, o.t)
              IN  IF snapshot.err # ""
                  THEN [obj |-> o, err |-> snapshot.err, idx |-> o.t, val |-> <<>>]
                  ELSE [obj |-> [o EXCEPT !.t = o.t + 1], err |-> "",
                        idx |-> o.t, val |-> snapshot.val]
         ELSE [obj |-> o, err |-> "StopIteration", idx |-> o.t, val |-> <<>>]

\* __next__: [obj, err, idx, val]; reading self.t before any __iter__ set it
\* raises AttributeError; an exception of __get_item__ leaves self.t as it was
__next__(o) ==
    IF ~o.has_t
    THEN [obj |-> o, err |-> "AttributeError", idx |-> 0, val |-> <<>>]
    ELSE IF o.t < Len(o.features)
         THEN LET snapshot == __get_item__(o, o.t)
              IN  IF snapshot.err # ""
                  THEN [obj |-> o, err |-> snapshot.err, idx |-> o.t, val |-> <<>>]
                  ELSE [obj |-> [o EXCEPT !.t = o.t + 1], err |-> "",
                        idx |-> o.t, val |-> snapshot.val]
         ELSE [obj |-> [o EXCEPT !.t = 0], err |-> "StopIteration",
               idx |-> o.t, val |-> <<>>]

---------------------------------------------------------------------------
(* Constructor arguments *)

\* what a row (the elements at one index) may deviate in from the default row
CoreShapes == {"no_ei", "no_ew", "no_x", "no_y", "no_b", "none", "y_f", "y_b"}

KeyShapes == {"k_none", "k_f", "k_b"}

Elem(field, shape, d) ==
    CASE field = "edge_indices" ->
             IF shape \in {"no_ei", "none"} THEN None ELSE Arr("i", d)
      [] field = "edge_weights" ->
             IF shape \in {"no_ew", "none"} THEN None ELSE Arr("f", d)
      [] field = "features" ->
             IF shape \in {"no_x", "none"} THEN None ELSE Arr("f", d)
      [] field = "batches" ->
             IF shape \in {"no_b", "none"} THEN None ELSE Arr("i", d)
      [] field = "targets" ->
             IF shape \in {"no_y", "none"} THEN None
             ELSE IF shape = "y_f" THEN Arr("f", d)
             ELSE IF shape = "y_b" THEN Arr("b", d)
             ELSE Arr("i", d)
      [] OTHER ->
             IF shape = "k_none" THEN None
             ELSE IF shape = "k_f" THEN Arr("f", d)
             ELSE IF shape = "k_b" THEN Arr("b", d)
             ELSE Arr("i", d)

\* the list of a field whose rows have the shapes sh; the array at index i holds i
List(field, sh) == [i \in 1..Len(sh) |-> Elem(field, sh[i], i - 1)]

Plain(n) == [i \in 1..n |-> "dflt"]

MkArgs(ei, ew, x, y, b, ks, kw) ==
    [edge_indices |-> ei, edge_weights |-> ew, features |-> x, targets |-> y,
     batches |-> b, keys |-> ks, kwargs |-> kw]

KeyLists == {SubSeq(Keys, 1, n) : n \in 0..Len(Keys)}

\* lists of any lengths, every element a present array
AnyLengthArgs ==
    {MkArgs(List("edge_indices", Plain(l[1])), List("edge_weights", Plain(l[2])),
            List("features", Plain(l[3])), List("targets", Plain(l[4])),
            List("batches", Plain(l[5])), ks,
            [k \in Range(ks) |-> List(k, Plain(kl[k]))]) :
        l \in [1..5 -> 0..MaxLen],
        <<ks, kl>> \in {<<q, m>> : q \in KeyLists, m \in [{"k1", "k2"} -> 0..MaxLen]}}

ShapeLists(n, shapes) ==
    {sh \in [1..n -> shapes \cup {"dflt"}] :
        Cardinality({i \in 1..n : sh[i] # "dflt"}) <= MaxOdd}

\* lists of one length, with absent elements and arrays of other kinds
EqualLengthArgs ==
    {MkArgs(List("edge_indices", sh), List("edge_weights", sh),
            List("features", sh), List("targets", sh), List("batches", sh),
            ks, [k \in Range(ks) |-> List(k, sh)]) :
        <<ks, sh>> \in
            UNION {{<<<<>>, s>> : s \in ShapeLists(n, CoreShapes)} \cup
                   {<<SubSeq(Keys, 1, 1), s>> :
                        s \in ShapeLists(n, CoreShapes \cup KeyShapes)} :
                   n \in 0..MaxLen}}

\* lists of one length, every element a present array
PlainArgs ==
    {MkArgs(List("edge_indices", Plain(n)), List("edge_weights", Plain(n)),
            List("features", Plain(n)), List("targets", Plain(n)),
            List("batches", Plain(n)), ks, [k \in Range(ks) |-> List(k, Plain(n))]) :
        n \in 0..MaxLen, ks \in KeyLists}

---------------------------------------------------------------------------
(* State *)

NoCall == [called |-> FALSE, arg |-> 0, err |-> "", val |-> <<>>]

InitWith(inputs) ==
    /\ args \in inputs
    /\ status = "pending"
    /\ self = Blank
    /\ got = NoCall
    /\ trace = [c \in Clients |-> <<>>]
    /\ prev = [c \in Clients |-> <<>>]
    /\ last = [op |-> "none", by |-> 0]

Init == InitWith(AnyLengthArgs \cup EqualLengthArgs) /\ pc = "idle"

\* the events of a traversal up to its first exception
FirstPass(tr) ==
    LET stops == {n \in 1..Len(tr) : tr[n].err # ""}
    IN  IF stops = {} THEN tr
        ELSE SubSeq(tr, 1, CHOOSE m \in stops : \A q \in stops : m <= q)

\* the traversal ran to exhaustion
Exhausted(tr) ==
    FirstPass(tr) # <<>> /\ FirstPass(tr)[Len(FirstPass(tr))].err = "StopIteration"

\* the snapshots a traversal yielded before its first exception
Yields(tr) == SelectSeq(FirstPass(tr), LAMBDA e : e.err = "")

Event(r) == [err |-> r.err, idx |-> r.idx, val |-> r.val]

---------------------------------------------------------------------------
(* Calls *)

\* obj = DynamicGraphTemporalSignalBatch(...)
New ==
    /\ status = "pending"
    /\ status' = (IF __init__(args).err = "" THEN "constructed" ELSE __init__(args).err)
    /\ self' = __init__(args).obj
    /\ UNCHANGED <<args, got, trace, prev, last, pc>>

Indices == (0 - MaxLen - 1)..(MaxLen + 1)

\* a variant of GetItem in which the access stores the index in self.t
GetItemMovesCursor(i) ==
    /\ status = "constructed"
    /\ got' = [called |-> TRUE, arg |-> i, err |-> __get_item__(self, i).err,
               val |-> __get_item__(self, i).val]
    /\ self' = [self EXCEPT !.has_t = TRUE, !.t = i]
    /\ UNCHANGED <<args, status, trace, prev, last, pc>>

\* obj.__get_item__(i), called directly
GetItem(i) ==
    /\ status = "constructed"
    /\ got' = [called |-> TRUE, arg |-> i, err |-> __get_item__(self, i).err,
               val |-> __get_item__(self, i).val]
    /\ UNCHANGED <<args, status, self, trace, prev, last, pc>>

\* iter(obj), by client c
Iter(c) ==
    /\ status = "constructed"
    /\ self' = __iter__(self)
    /\ trace' = [trace EXCEPT ![c] = <<>>]
    /\ prev' = [prev EXCEPT ![c] = IF Exhausted(trace[c]) THEN <<Yields(trace[c])>> ELSE @]
    /\ last' = [op |-> "iter", by |-> c]
    /\ UNCHANGED <<args, status, got, pc>>

\* next(obj), by client c
NextStep(c) ==
    /\ status = "constructed"
    /\ Len(trace[c]) < MaxTrace
    /\ self' = __next__(self).obj
    /\ trace' = [trace EXCEPT ![c] = Append(@, Event(__next__(self)))]
    /\ last' = [op |-> "next", by |-> c]
    /\ UNCHANGED <<args, status, got, prev, pc>>

\* one client that traverses, and direct accesses at any time
Next ==
    \/ New
    \/ \E i \in Indices : GetItem(i)
    \/ Iter(1)
    \/ NextStep(1)

Spec == Init /\ [][Next]_vars

---------------------------------------------------------------------------
(* Two clients, each running one loop  for a in obj: ...  over the same    *)
(* aggregate, their calls interleaved in any order.  pc[c] is the call     *)
(* client c makes next.                                                    *)

InitTwo == InitWith(PlainArgs) /\ pc = [c \in Clients |-> "iter"]

\* the loop of client c calls iter(obj)
LoopIter(c) ==
    /\ pc[c] = "iter"
    /\ status = "constructed"
    /\ self' = __iter__(self)
    /\ trace' = [trace EXCEPT ![c] = <<>>]
    /\ last' = [op |-> "iter", by |-> c]
    /\ pc' = [pc EXCEPT ![c] = "next"]
    /\ UNCHANGED <<args, status, got, prev>>

\* the loop of client c calls next(obj); an exception ends the loop
LoopNext(c) ==
    /\ pc[c] = "next"
    /\ self' = __next__(self).obj
    /\ trace' = [trace EXCEPT ![c] = Append(@, Event(__next__(self)))]
    /\ last' = [op |-> "next", by |-> c]
    /\ pc' = [pc EXCEPT ![c] = IF __next__(self).err = "" THEN "next" ELSE "done"]
    /\ UNCHANGED <<args, status, got, prev>>

NextTwo ==
    \/ New
    \/ \E c \in Clients : LoopIter(c)
    \/ \E c \in Clients : LoopNext(c)

SpecTwo == InitTwo /\ [][NextTwo]_vars

---------------------------------------------------------------------------
(* Nested loops over the same aggregate:                                   *)
(*     for a in obj:          client 1                                     *)
(*         for b in obj:      client 2                                     *)
(*             pass                                                        *)
(* A for loop calls iter once, then next until StopIteration; any other    *)
(* exception leaves both loops.                                            *)

InitNested == InitWith(EqualLengthArgs \cup PlainArgs) /\ pc = "o_iter"

\* the last MaxTrace events
Window(s) == IF Len(s) > MaxTrace THEN Tail(s) ELSE s

After(err, yielded, exhausted) ==
    IF err = "" THEN yielded ELSE IF err = "StopIteration" THEN exhausted ELSE "error"

OuterIter ==
    /\ pc = "o_iter"
    /\ status = "constructed"
    /\ self' = __iter__(self)
    /\ trace' = [trace EXCEPT ![1] = <<>>]
    /\ last' = [op |-> "iter", by |-> 1]
    /\ pc' = "o_next"
    /\ UNCHANGED <<args, status, got, prev>>

OuterNext ==
    /\ pc = "o_next"
    /\ self' = __next__(self).obj
    /\ trace' = [trace EXCEPT ![1] = Window(Append(@, Event(__next__(self))))]
    /\ last' = [op |-> "next", by |-> 1]
    /\ pc' = After(__next__(self).err, "i_iter", "done")
    /\ UNCHANGED <<args, status, got, prev>>

InnerIter ==
    /\ pc = "i_iter"
    /\ self' = __iter__(self)
    /\ trace' = [trace EXCEPT ![2] = <<>>]
    /\ last' = [op |-> "iter", by |-> 2]
    /\ pc' = "i_next"
    /\ UNCHANGED <<args, status, got, prev>>

InnerNext ==
    /\ pc = "i_next"
    /\ self' = __next__(self).obj
    /\ trace' = [trace EXCEPT ![2] = Append(@, Event(__next__(self)))]
    /\ last' = [op |-> "next", by |-> 2]
    /\ pc' = After(__next__(self).err, "i_next", "o_next")
    /\ UNCHANGED <<args, status, got, prev>>

NextNested ==
    \/ New
    \/ OuterIter
    \/ OuterNext
    \/ InnerIter
    \/ InnerNext

SpecNested == InitNested /\ [][NextNested]_vars

---------------------------------------------------------------------------
(* Properties *)

\* the lengths of the lists passed to the constructor
ArgLengths(a) ==
    {Len(a.edge_indices), Len(a.edge_weights), Len(a.features), Len(a.targets),
     Len(a.batches)} \cup {Len(a.kwargs[k]) : k \in Range(a.keys)}

\* the position (from 0) that index i addresses in a list of n elements
Pos(i, n) == IF i >= 0 THEN i ELSE n + i

Stored(field, p) == self[field][p + 1]

ExtraKeys == Range(self.additional_feature_keys)

AbsentExtraAt(p) == \E k \in ExtraKeys : self.attrs[k][p + 1] = None

\* C1: construction raises (and hands the caller no object) exactly when the
\* lists passed, the keyword ones included, are not all of one length
C1_ConstructionChecksLengths ==
    status # "pending" =>
        /\ status = "AssertionError" <=> Cardinality(ArgLengths(args)) > 1
        /\ status = "constructed" <=> Cardinality(ArgLengths(args)) = 1
        /\ status = "AssertionError" => self = Blank
        /\ status = "constructed" => self.features = args.features

\* construction failed on arguments in which batches alone is the outlier
C1_Witness ==
    /\ status = "AssertionError"
    /\ Cardinality(ArgLengths(args)) = 2
    /\ Cardinality(ArgLengths([args EXCEPT !.batches = args.features])) = 1

\* C2 as stated: snapshot_count is the common length T, a direct access at t
\* succeeds for 0 <= t < T and raises IndexError for every t < 0 and every t >= T
C2_Original ==
    got.called =>
        LET T == Len(args.features)
        IN  /\ self.snapshot_count = T
            /\ (0 <= got.arg /\ got.arg < T /\ ~AbsentExtraAt(got.arg)) => got.err = ""
            /\ (got.arg < 0 \/ got.arg >= T) => got.err = "IndexError"

\* C2 amended: snapshot_count is the common length T; a direct access at t
\* raises IndexError exactly when t < -T or t >= T; for -T <= t < 0 it returns
\* what the access at T + t returns; and for -T <= t < T it succeeds unless
\* an additional-feature element at that position is absent
C2_Amended ==
    got.called =>
        LET T == Len(args.features)
            p == Pos(got.arg, T)
        IN  /\ self.snapshot_count = T
            /\ got.err = "IndexError" <=> (got.arg < 0 - T \/ got.arg >= T)
            /\ (0 - T <= got.arg /\ got.arg < T) =>
                   /\ got.err = "" <=> ~AbsentExtraAt(p)
                   /\ got.err = "" =>
                          /\ got.val = __get_item__(self, p).val
                          /\ Stored("features", p) # None => got.val[1].x.data = p

\* a direct access at a negative index returned a snapshot
C2_Witness == got.called /\ got.arg < 0 /\ got.err = "" /\ got.val[1].x # None

\* C3: the snapshots one traversal yields, up to its first exception, are those
\* of the indices 0, 1, ... in order; StopIteration comes after exactly T of
\* them; and a traversal that ran to exhaustion yielded what the one before did
C3_TraversalInOrder ==
    (status = "constructed" /\ self.has_t) =>
        LET tr == FirstPass(trace[1])
            T == Len(args.features)
        IN  /\ \A n \in 1..Len(tr) :
                   /\ tr[n].idx = n - 1
                   /\ tr[n].err = "" =>
                          /\ n <= T
                          /\ tr[n].val = __get_item__(self, n - 1).val
                          /\ \A f \in {"features", "edge_indices"} :
                                 Stored(f, n - 1) # None =>
                                     (IF f = "features" THEN tr[n].val[1].x
                                      ELSE tr[n].val[1].edge_index).data = n - 1
                   /\ tr[n].err = "StopIteration" <=> n = T + 1
                   /\ (n <= T /\ ~AbsentExtraAt(n - 1)) => tr[n].err = ""
            /\ Exhausted(trace[1]) => Len(Yields(trace[1])) = T
            /\ (Exhausted(trace[1]) /\ prev[1] # <<>>) => Yields(trace[1]) = prev[1][1]

\* a second traversal of at least two snapshots ran to exhaustion
C3_Witness ==
    /\ Exhausted(trace[1])
    /\ prev[1] # <<>>
    /\ Len(Yields(trace[1])) >= 2

\* C4 as stated: in the snapshot of a valid index, each of the five core fields
\* is absent if and only if the stored element is
C4_AbsentPassThrough ==
    (got.called /\ got.err = "" /\ got.arg >= 0) =>
        LET p == got.arg
            snap == got.val[1]
        IN  /\ snap.x = None <=> Stored("features", p) = None
            /\ snap.edge_index = None <=> Stored("edge_indices", p) = None
            /\ snap.edge_attr = None <=> Stored("edge_weights", p) = None
            /\ snap.batch = None <=> Stored("batches", p) = None
            /\ snap.y = None <=> Stored("targets", p) = None

\* C5 as stated: an access at an index whose target, or one of whose additional
\* features, is an array of a kind other than "i" and "f" raises
C5_UnsupportedKindRaises ==
    got.called =>
        LET n == Len(self.features)
            p == got.arg
        IN  (/\ 0 <= p
             /\ p < n
             /\ \/ Stored("targets", p).kind \notin {"None", "i", "f"}
                \/ \E k \in ExtraKeys : self.attrs[k][p + 1].kind \notin {"None", "i", "f"})
            => got.err # ""

\* C6 as stated: an absent additional-feature element makes the access raise,
\* an absent core element never does, and a snapshot returned maps exactly the
\* keys passed at construction, each to a value that is not absent
C6_AdditionalNeverAbsent ==
    got.called =>
        LET n == Len(self.features)
            p == got.arg
        IN  (0 <= p /\ p < n) =>
                /\ AbsentExtraAt(p) => got.err # ""
                /\ ~AbsentExtraAt(p) => got.err = ""
                /\ got.err = "" =>
                       /\ DOMAIN got.val[1].additional = Range(args.keys)
                       /\ \A k \in Range(args.keys) : got.val[1].additional[k] # None

\* C7: when the other client's __iter__ was the last call on the aggregate, a
\* client's __next__ yields the snapshot of index 0 (StopIteration on an empty
\* aggregate), wherever its own traversal stood
C7_IterResetsOther ==
    [][\A c \in Clients :
           (/\ last.op = "iter"
            /\ last.by # c
            /\ last' = [op |-> "next", by |-> c])
           => LET e == trace'[c][Len(trace'[c])]
              IN  /\ Len(trace'[c]) = Len(trace[c]) + 1
                  /\ e.idx = 0
                  /\ e.val = __get_item__(self, 0).val
                  /\ e.err = "" <=> Len(self.features) >= 1]_vars

\* client 1 was at cursor 1, client 2 called __iter__, and client 1 was then
\* handed the snapshot of index 0 a second time
C7_Witness ==
    /\ Len(self.features) >= 2
    /\ Len(trace[1]) = 2
    /\ trace[1][1].err = "" /\ trace[1][1].idx = 0
    /\ trace[1][2].err = "" /\ trace[1][2].idx = 0
    /\ trace[2] = <<>>
    /\ last = [op |-> "next", by |-> 1]

\* C8: once __iter__ has run the cursor stays within 0..T; the __next__ that
\* raises StopIteration leaves it at 0; and on an aggregate that is not empty the
\* __next__ after it yields the snapshot of index 0
C8_ExhaustionResets ==
    status = "constructed" =>
        LET tr == trace[1]
            T == Len(self.features)
        IN  /\ self.has_t => (0 <= self.t /\ self.t <= T)
            /\ \A n \in 1..Len(tr) :
                   tr[n].err = "StopIteration" =>
                       /\ tr[n].idx = T
                       /\ n = Len(tr) => self.t = 0
                       /\ (n < Len(tr) /\ T >= 1) =>
                              /\ tr[n + 1].err = ""
                              /\ tr[n + 1].idx = 0
                              /\ tr[n + 1].val = __get_item__(self, 0).val
                       /\ (n < Len(tr) /\ T = 0) => tr[n + 1].err = "StopIteration"

\* after StopIteration a further __next__ yielded the snapshot of index 0
C8_Witness ==
    \E n \in 1..(Len(trace[1]) - 1) :
        /\ trace[1][n].err = "StopIteration"
        /\ trace[1][n + 1].err = ""
        /\ trace[1][n + 1].idx = 0
        /\ n >= 3

\* C9: a direct __get_item__, returning or raising, changes nothing of the
\* aggregate (cursor, snapshot_count, keys, lists), so the next step of a
\* traversal is what it was; and two accesses at one index, whatever traversal
\* steps lie between them, return the same
C9_GetItemReadOnly ==
    [][/\ got' # got =>
              /\ self' = self
              /\ __next__(self') = __next__(self)
              /\ UNCHANGED <<args, status, trace, prev>>
       /\ (got.called /\ got'.called /\ got'.arg = got.arg) => got' = got]_vars

\* index 0 was accessed directly while a traversal stood at cursor 1
C9_Witness ==
    /\ got.called
    /\ got.arg = 0
    /\ got.err = ""
    /\ self.has_t
    /\ self.t = 1
    /\ Len(trace[1]) = 1

NoAbsentExtra == \A p \in 0..(Len(self.features) - 1) : ~AbsentExtraAt(p)

\* C10: over an aggregate that is not empty the outer of two nested loops never
\* sees StopIteration and is handed the snapshot of index 0 every time; with no
\* absent additional-feature element the loops never end at all
C10_NestedNeverExhausts ==
    (status = "constructed" /\ Len(self.features) >= 1) =>
        /\ pc # "done"
        /\ \A n \in 1..Len(trace[1]) :
               /\ trace[1][n].idx = 0
               /\ trace[1][n].err # "StopIteration"
        /\ pc = "o_next" => (self.has_t /\ self.t = 0)
        /\ NoAbsentExtra => (pc # "error" /\ ENABLED NextNested)

\* the outer loop is handed its third snapshot in a row of index 0, each after
\* a complete inner traversal of two snapshots
C10_Witness ==
    /\ pc = "i_iter"
    /\ Len(self.features) >= 2
    /\ Len(trace[1]) >= 3
    /\ \A n \in 1..Len(trace[1]) : trace[1][n].err = "" /\ trace[1][n].idx = 0
    /\ Exhausted(trace[2])

=============================================================================
